---- MODULE Spec2Model ----
(***************************************************************************)
(* Model of package descriptor (descriptor/descriptor.go): the derivation  *)
(* of legacy raw descriptors (gzipped FileDescriptorProto bytes plus an    *)
(* index path) from reflective descriptors, the decoding of raw            *)
(* descriptors into descriptor protos, and the two process-wide sync.Map   *)
(* caches, under concurrent callers.                                       *)
(***************************************************************************)
EXTENDS Integers, Sequences, FiniteSets, TLC

(***************************************************************************)
(* Bounds of the model.                                                    *)
(***************************************************************************)
\* Number of calls of the public operations in one execution.  Each call
\* runs in a goroutine of its own, so that any number of them are in
\* progress at a time; the calls are numbered in the order they start.
MaxCalls == 2

Threads == 1..MaxCalls

(***************************************************************************)
(* State.                                                                  *)
(*   rawDescCache   sync.Map, descriptor -> *rawDesc                       *)
(*   fileDescCache  sync.Map, *byte -> *descriptorpb.FileDescriptorProto   *)
(*   th             per call: its position and its local variables, and   *)
(*                  its result once it has returned                        *)
(*   calls          the number of calls started                            *)
(***************************************************************************)
VARIABLES rawDescCache, fileDescCache, th, calls

vars == <<rawDescCache, fileDescCache, th, calls>>

(***************************************************************************)
(* The reflective descriptors (protoreflect.Descriptor): an arena of nodes *)
(* with a kind, a parent (0 is the nil parent), the index within the       *)
(* parent's list of declarations of the same kind, and a name.  The        *)
(* package only reads them.                                                *)
(*   1 file                                                                *)
(*   2   message Foo    [0]        3     message Bar   [0,0]               *)
(*   4   message Baz    [1]        5     message Inner [1,0]               *)
(*                                 6       enum Kind   [1,0,0]             *)
(*   7   enum Color     [0]       10   enum Shade      [1]                 *)
(*  11   message Old    [2]                                                *)
(*   8 message Lone  (no parent)   9   enum LoneKind (parent 8)            *)
(***************************************************************************)
NilDesc == 0

Descriptors ==
  << [kind |-> "file",    parent |-> 0, index |-> 0, name |-> 11],
     [kind |-> "message", parent |-> 1, index |-> 0, name |-> 12],
     [kind |-> "message", parent |-> 2, index |-> 0, name |-> 13],
     [kind |-> "message", parent |-> 1, index |-> 1, name |-> 14],
     [kind |-> "message", parent |-> 4, index |-> 0, name |-> 15],
     [kind |-> "enum",    parent |-> 5, index |-> 0, name |-> 16],
     [kind |-> "enum",    parent |-> 1, index |-> 0, name |-> 17],
     [kind |-> "message", parent |-> 0, index |-> 0, name |-> 18],
     [kind |-> "enum",    parent |-> 8, index |-> 0, name |-> 19],
     [kind |-> "enum",    parent |-> 1, index |-> 1, name |-> 20],
     [kind |-> "message", parent |-> 1, index |-> 2, name |-> 21] >>

DescIds == DOMAIN Descriptors

\* d.Index()
Index(d) == Descriptors[d].index
\* d.Parent()
Parent(d) == Descriptors[d].parent
\* _, ok := d.(protoreflect.FileDescriptor)
IsFileDescriptor(d) == Descriptors[d].kind = "file"

(***************************************************************************)
(* protodesc.ToFileDescriptorProto: the descriptor proto tree of a file.   *)
(***************************************************************************)
\* The declarations of one kind directly under p, in index order.
Children(p, kind) ==
  LET S == {c \in DescIds : Descriptors[c].parent = p /\ Descriptors[c].kind = kind}
  IN  [i \in 1..Cardinality(S) |-> CHOOSE c \in S : Descriptors[c].index = i - 1]

ToEnumDescriptorProto(e) == [kind |-> "enum", name |-> Descriptors[e].name]

RECURSIVE ToDescriptorProto(_)
ToDescriptorProto(m) ==
  [kind        |-> "message",
   name        |-> Descriptors[m].name,
   nested_type |-> [i \in DOMAIN Children(m, "message") |->
                      ToDescriptorProto(Children(m, "message")[i])],
   enum_type   |-> [i \in DOMAIN Children(m, "enum") |->
                      ToEnumDescriptorProto(Children(m, "enum")[i])]]

ToFileDescriptorProto(f) ==
  [kind         |-> "file",
   name         |-> Descriptors[f].name,
   message_type |-> [i \in DOMAIN Children(f, "message") |->
                       ToDescriptorProto(Children(f, "message")[i])],
   enum_type    |-> [i \in DOMAIN Children(f, "enum") |->
                       ToEnumDescriptorProto(Children(f, "enum")[i])]]

(***************************************************************************)
(* proto.Marshal: the protobuf wire format.  Every field used here is      *)
(* length-delimited: key byte (field number * 8 + 2), length, payload.     *)
(* A name is one byte long.                                                *)
(***************************************************************************)
WireBytes == 2
KeyOf(field) == field * 8 + WireBytes

\* Field numbers of descriptor.proto.
FileName == 1
FileMessageType == 4
FileEnumType == 5
MsgName == 1
MsgNestedType == 3
MsgEnumType == 4
EnumName == 1

Field(num, payload) == <<KeyOf(num), Len(payload)>> \o payload

RECURSIVE Concat(_)
Concat(ss) == IF ss = <<>> THEN <<>> ELSE Head(ss) \o Concat(Tail(ss))

MarshalEnum(e) == Field(EnumName, <<e.name>>)

RECURSIVE MarshalMessage(_)
MarshalMessage(m) ==
  Field(MsgName, <<m.name>>)
  \o Concat([i \in DOMAIN m.nested_type |->
               Field(MsgNestedType, MarshalMessage(m.nested_type[i]))])
  \o Concat([i \in DOMAIN m.enum_type |->
               Field(MsgEnumType, MarshalEnum(m.enum_type[i]))])

Marshal(fd) ==
  Field(FileName, <<fd.name>>)
  \o Concat([i \in DOMAIN fd.message_type |->
               Field(FileMessageType, MarshalMessage(fd.message_type[i]))])
  \o Concat([i \in DOMAIN fd.enum_type |->
               Field(FileEnumType, MarshalEnum(fd.enum_type[i]))])

(***************************************************************************)
(* protoimpl.X.CompressGZIP and gzip.NewReader / ioutil.ReadAll: a gzip    *)
(* member is the two magic bytes, the body, a checksum of the              *)
(* uncompressed data and its size.                                         *)
(***************************************************************************)
GzipID1 == 31
GzipID2 == 139
ByteMod == 256

RECURSIVE Sum(_)
Sum(s) == IF s = <<>> THEN 0 ELSE Head(s) + Sum(Tail(s))

Checksum(b) == Sum(b) % ByteMod

\* Variant: the member carries a stamp of the moment it was written.
CompressGZIPStamped(b) ==
  <<GzipID1, GzipID2>> \o b \o <<Checksum(b), (Len(b) + calls) % ByteMod>>

CompressGZIP(b) == <<GzipID1, GzipID2>> \o b \o <<Checksum(b), Len(b) % ByteMod>>

\* gzip.NewReader fails on a bad header.
GzipHeaderOK(z) == Len(z) >= 2 /\ z[1] = GzipID1 /\ z[2] = GzipID2
\* ioutil.ReadAll fails on a truncated member or a checksum or size mismatch.
GzipBody(z) == SubSeq(z, 3, Len(z) - 2)
GzipReadOK(z) ==
  /\ Len(z) >= 4
  /\ z[Len(z) - 1] = Checksum(GzipBody(z))
  /\ z[Len(z)] = Len(GzipBody(z)) % ByteMod

(***************************************************************************)
(* proto.Unmarshal: parses the wire format back into a descriptor proto.   *)
(***************************************************************************)
\* Splits b into its fields, <<key, payload>> each; "error" when some field
\* is truncated or is not length-delimited.
RECURSIVE ParseFields(_)
ParseFields(b) ==
  IF b = <<>> THEN <<>>
  ELSE IF Len(b) < 2 \/ b[1] % 8 # WireBytes \/ Len(b) < 2 + b[2] THEN <<"error">>
  ELSE LET rest == ParseFields(SubSeq(b, 3 + b[2], Len(b)))
       IN  IF rest = <<"error">> THEN rest
           ELSE << <<b[1], SubSeq(b, 3, 2 + b[2])>> >> \o rest

WireOK(b) == ParseFields(b) # <<"error">>

\* The payloads of the fields with number num, in order of appearance.
RECURSIVE Payloads(_, _)
Payloads(fs, num) ==
  IF fs = <<>> THEN <<>>
  ELSE IF Head(fs)[1] = KeyOf(num) THEN <<Head(fs)[2]>> \o Payloads(Tail(fs), num)
  ELSE Payloads(Tail(fs), num)

\* A singular string field: the last occurrence wins, 0 when absent.
NameOf(fs, num) ==
  LET ps == Payloads(fs, num)
  IN  IF ps = <<>> \/ ps[Len(ps)] = <<>> THEN 0 ELSE ps[Len(ps)][1]

EnumWireOK(b) == WireOK(b)
UnmarshalEnum(b) == [kind |-> "enum", name |-> NameOf(ParseFields(b), EnumName)]

RECURSIVE MessageWireOK(_)
MessageWireOK(b) ==
  /\ WireOK(b)
  /\ LET fs == ParseFields(b)
     IN  /\ \A i \in DOMAIN Payloads(fs, MsgNestedType) :
               MessageWireOK(Payloads(fs, MsgNestedType)[i])
         /\ \A i \in DOMAIN Payloads(fs, MsgEnumType) :
               EnumWireOK(Payloads(fs, MsgEnumType)[i])

RECURSIVE UnmarshalMessage(_)
UnmarshalMessage(b) ==
  LET fs == ParseFields(b)
  IN  [kind        |-> "message",
       name        |-> NameOf(fs, MsgName),
       nested_type |-> [i \in DOMAIN Payloads(fs, MsgNestedType) |->
                          UnmarshalMessage(Payloads(fs, MsgNestedType)[i])],
       enum_type   |-> [i \in DOMAIN Payloads(fs, MsgEnumType) |->
                          UnmarshalEnum(Payloads(fs, MsgEnumType)[i])]]

\* proto.Unmarshal(b, fd) returns a nil error.
UnmarshalOK(b) ==
  /\ WireOK(b)
  /\ LET fs == ParseFields(b)
     IN  /\ \A i \in DOMAIN Payloads(fs, FileMessageType) :
               MessageWireOK(Payloads(fs, FileMessageType)[i])
         /\ \A i \in DOMAIN Payloads(fs, FileEnumType) :
               EnumWireOK(Payloads(fs, FileEnumType)[i])

Unmarshal(b) ==
  LET fs == ParseFields(b)
  IN  [kind         |-> "file",
       name         |-> NameOf(fs, FileName),
       message_type |-> [i \in DOMAIN Payloads(fs, FileMessageType) |->
                           UnmarshalMessage(Payloads(fs, FileMessageType)[i])],
       enum_type    |-> [i \in DOMAIN Payloads(fs, FileEnumType) |->
                           UnmarshalEnum(Payloads(fs, FileEnumType)[i])]]

(***************************************************************************)
(* Go values of the model.  A []byte is the address of its first byte and  *)
(* its content (address 0 is the nil slice); a []int is nil or a list.     *)
(***************************************************************************)
NilBytes == [addr |-> 0, bytes |-> <<>>]
NilIdxs == [isnil |-> TRUE, elems |-> <<>>]
NilProto == [kind |-> "nil"]

IsNilBytes(b) == b.addr = 0
IsNilIdxs(s) == s.isnil
Idxs(elems) == [isnil |-> FALSE, elems |-> elems]

\* The file descriptor of the arena and its raw form.
TheFile == 1
FileBytes == CompressGZIP(Marshal(ToFileDescriptorProto(TheFile)))

\* Addresses of the byte arrays that generated code embeds; the allocator
\* hands out the addresses from FirstHeapAddr on.
EmbeddedAddr == 1
OtherEmbeddedAddr == 2
FirstHeapAddr == 3
\* The number of bytes by which one accessor's slice is shorter than the
\* embedded array.
TruncatedBy == 7

(***************************************************************************)
(* The values handed to the package (proto.GeneratedMessage,               *)
(* proto.GeneratedEnum).  Each has the reflective descriptor that          *)
(* protoimpl.X.MessageTypeOf / EnumTypeOf reports for it; some also have   *)
(* an accessor of their own, Descriptor() or EnumDescriptor(), returning   *)
(* the pair given here.  An accessor is code of the caller's type: it may  *)
(* return an index path that is not the one the reflective descriptor      *)
(* gives, a slice of the embedded array shorter than the whole array, a    *)
(* nil index path, or an index that the file does not have.                *)
(***************************************************************************)
Derived(kind, desc) ==
  [kind |-> kind, desc |-> desc, accessor |-> FALSE,
   rawDesc |-> NilBytes, idxs |-> NilIdxs]
SelfDescribing(kind, desc, rawDesc, idxs) ==
  [kind |-> kind, desc |-> desc, accessor |-> TRUE,
   rawDesc |-> rawDesc, idxs |-> idxs]

Values ==
  << Derived("message", 2),
     Derived("message", 3),
     Derived("enum", 6),
     Derived("enum", 7),
     Derived("message", 8),
     Derived("enum", 9),
     SelfDescribing("message", 4,
        [addr |-> EmbeddedAddr, bytes |-> FileBytes], Idxs(<<1>>)),
     SelfDescribing("message", 5,
        [addr |-> EmbeddedAddr, bytes |-> SubSeq(FileBytes, 1, Len(FileBytes) - TruncatedBy)],
        Idxs(<<1, 0>>)),
     SelfDescribing("enum", 10,
        [addr |-> OtherEmbeddedAddr, bytes |-> FileBytes], NilIdxs),
     SelfDescribing("message", 11,
        [addr |-> EmbeddedAddr, bytes |-> FileBytes], Idxs(<<3>>)) >>

ValueIds == DOMAIN Values

(***************************************************************************)
(* A call: pc is its position; val and proto say which operation it is     *)
(* (proto: EnumDescriptorProto / MessageDescriptorProto, otherwise         *)
(* EnumRawDescriptor / MessageRawDescriptor); d, idxs and file are the     *)
(* locals of deriveRawDescriptor; raw is the pair the raw operation        *)
(* returned; fd is the tree deriveFileDescriptor has in hand; ret is the   *)
(* result of the call.                                                     *)
(***************************************************************************)
NoRet == [rawDesc |-> NilBytes, idxs |-> NilIdxs, fd |-> NilProto, decl |-> NilProto]
NoRaw == [fileDesc |-> NilBytes, indexes |-> NilIdxs]

Idle ==
  [pc |-> "idle", val |-> 0, proto |-> FALSE, d |-> NilDesc, idxs |-> NilIdxs,
   file |-> NilBytes, raw |-> NoRaw, fd |-> NilProto, ret |-> NoRet]

Init ==
  /\ rawDescCache = <<>>
  /\ fileDescCache = <<>>
  /\ th = [t \in Threads |-> Idle]
  /\ calls = 0

\* The descriptor the call in progress was made for (origDesc).
OrigDesc(t) == Values[th[t].val].desc

(***************************************************************************)
(* sync.Map                                                                *)
(***************************************************************************)
Has(m, k) == k \in DOMAIN m
\* Variant: Store, which replaces the value k has.
StoreAlways(m, k, v) == [x \in DOMAIN m \cup {k} |-> IF x = k THEN v ELSE m[x]]

\* LoadOrStore: stores v only when k has no value.
LoadOrStore(m, k, v) ==
  IF Has(m, k) THEN m ELSE [x \in DOMAIN m \cup {k} |-> IF x = k THEN v ELSE m[x]]

\* Variant: the key is a digest of the content.
FileKeyByContent(rawDesc) == ByteMod + Checksum(rawDesc.bytes)

\* The key of fileDescCache: &rawDesc[0].
FileKey(rawDesc) == rawDesc.addr

(***************************************************************************)
(* The end of EnumRawDescriptor / MessageRawDescriptor with the pair       *)
(* (rawDesc, idxs).  A raw operation returns the pair.  A                  *)
(* descriptor-proto operation returns (nil, nil) when either is nil and    *)
(* goes on to deriveFileDescriptor otherwise.                              *)
(***************************************************************************)
\* Variant: the descriptor-proto operations go on without the nil check.
AfterRawNoNilCheck(r, rawDesc, idxs) ==
  LET base == [r EXCEPT !.d = NilDesc, !.raw = [fileDesc |-> rawDesc, indexes |-> idxs]]
  IN  IF ~r.proto
        THEN [base EXCEPT !.pc = "done",
                          !.ret = [NoRet EXCEPT !.rawDesc = rawDesc, !.idxs = idxs]]
      ELSE [base EXCEPT !.pc = "fload"]

AfterRaw(r, rawDesc, idxs) ==
  LET base == [r EXCEPT !.d = NilDesc, !.raw = [fileDesc |-> rawDesc, indexes |-> idxs]]
  IN  IF ~r.proto
        THEN [base EXCEPT !.pc = "done",
                          !.ret = [NoRet EXCEPT !.rawDesc = rawDesc, !.idxs = idxs]]
      ELSE IF IsNilBytes(rawDesc) \/ IsNilIdxs(idxs)
        THEN [base EXCEPT !.pc = "done"]
      ELSE [base EXCEPT !.pc = "fload"]

\* Call t is the next to start.
CanCall(t) == th[t].pc = "idle" /\ t = calls + 1

\* Variant: the accessor is not consulted and the descriptor is derived.
FastPathDerives(t, v, proto) ==
  /\ CanCall(t)
  /\ Values[v].accessor
  /\ th' = [th EXCEPT ![t] =
              [Idle EXCEPT !.pc = "derive", !.val = v, !.proto = proto,
                           !.d = Values[v].desc]]
  /\ calls' = calls + 1
  /\ UNCHANGED <<rawDescCache, fileDescCache>>

\* The value has its own accessor: its pair is the result of the raw
\* operation.
FastPath(t, v, proto) ==
  /\ CanCall(t)
  /\ Values[v].accessor
  /\ th' = [th EXCEPT ![t] =
              AfterRaw([Idle EXCEPT !.val = v, !.proto = proto],
                       Values[v].rawDesc, Values[v].idxs)]
  /\ calls' = calls + 1
  /\ UNCHANGED <<rawDescCache, fileDescCache>>

(***************************************************************************)
(* deriveRawDescriptor                                                     *)
(***************************************************************************)
\* Variant: without the fast path, every call walks and encodes.
SlowPathNoLoad(t, v, proto) ==
  /\ CanCall(t)
  /\ ~Values[v].accessor
  /\ th' = [th EXCEPT ![t] =
              [Idle EXCEPT !.pc = "derive", !.val = v, !.proto = proto,
                           !.d = Values[v].desc]]
  /\ calls' = calls + 1
  /\ UNCHANGED <<rawDescCache, fileDescCache>>

\* The value has no accessor: deriveRawDescriptor is called with its
\* reflective descriptor and begins with the fast path,
\* rawDescCache.Load(origDesc).
SlowPath(t, v, proto) ==
  /\ CanCall(t)
  /\ ~Values[v].accessor
  /\ LET r == [Idle EXCEPT !.val = v, !.proto = proto, !.d = Values[v].desc]
     IN  th' = [th EXCEPT ![t] =
                  IF Has(rawDescCache, Values[v].desc)
                    THEN AfterRaw(r, rawDescCache[Values[v].desc].fileDesc,
                                     rawDescCache[Values[v].desc].indexes)
                    ELSE [r EXCEPT !.pc = "derive"]]
  /\ calls' = calls + 1
  /\ UNCHANGED <<rawDescCache, fileDescCache>>

\* The loop that ascends from the leaf to the file descriptor: appends the
\* index of d, moves to the parent, returns at a nil parent and leaves the
\* loop at a file descriptor.
RECURSIVE Ascend(_, _)
Ascend(idxs, d) ==
  LET idxs1 == Append(idxs, Index(d))
      d1    == Parent(d)
  IN  IF d1 = NilDesc THEN [nilParent |-> TRUE, idxs |-> idxs1, d |-> d1]
      ELSE IF IsFileDescriptor(d1) THEN [nilParent |-> FALSE, idxs |-> idxs1, d |-> d1]
      ELSE Ascend(idxs1, d1)

\* The address of the buffer that call t allocates: one that no other
\* buffer has (a call allocates at most one).
NewAddr(t) == FirstHeapAddr + t

\* for i, j := 0, len(idxs)-1; i < j; i, j = i+1, j-1 { swap }
RECURSIVE ReverseFrom(_, _, _)
ReverseFrom(s, i, j) ==
  IF i < j THEN ReverseFrom([s EXCEPT ![i] = s[j], ![j] = s[i]], i + 1, j - 1)
  ELSE s

\* Variant: the list is left in leaf-to-root order.
ReverseNone(s) == s

Reverse(s) == ReverseFrom(s, 1, Len(s))

\* Variant: return nil, idxs
NilParentKeepsIdxs(r) == AfterRaw(r, NilBytes, r.idxs)

\* return nil, nil
NilParent(r) == AfterRaw(r, NilBytes, NilIdxs)

\* The function f with its values computed once, for all of its domain.
Tabulated(f) == f @@ <<>>

\* The ascent from each descriptor, as a table.
AscentFrom == Tabulated([d \in DescIds |-> Ascend(<<>>, d)])

\* proto.Marshal(protodesc.ToFileDescriptorProto(fd)) and CompressGZIP for
\* each file descriptor, as tables.
MarshalledFile ==
  Tabulated([f \in {d \in DescIds : IsFileDescriptor(d)} |->
               Marshal(ToFileDescriptorProto(f))])
GzippedFile ==
  Tabulated([f \in {d \in DescIds : IsFileDescriptor(d)} |->
               CompressGZIP(MarshalledFile[f])])

\* Variant: the outcome of a walk that ends at a nil parent is stored, as
\* the pair (nil, nil).
DeriveCachingNil(t) ==
  /\ th[t].pc = "derive"
  /\ LET a == AscentFrom[th[t].d]
         r == [th[t] EXCEPT !.idxs = Idxs(a.idxs), !.d = a.d]
     IN  /\ th' = [th EXCEPT ![t] =
                     IF a.nilParent THEN NilParent(r)
                     ELSE [r EXCEPT
                             !.pc = "reverse",
                             !.file = [addr  |-> NewAddr(t),
                                       bytes |-> GzippedFile[a.d]]]]
         /\ rawDescCache' =
              IF a.nilParent THEN LoadOrStore(rawDescCache, OrigDesc(t), NoRaw)
              ELSE rawDescCache
  /\ UNCHANGED <<fileDescCache, calls>>

\* Slow-path, up to the reversal: the ascent, which returns (nil, nil) at a
\* nil parent; then proto.Marshal(protodesc.ToFileDescriptorProto(fd)) and
\* CompressGZIP into a newly allocated buffer.  idxs is in leaf-to-root
\* order.
Derive(t) ==
  /\ th[t].pc = "derive"
  /\ LET a == AscentFrom[th[t].d]
         r == [th[t] EXCEPT !.idxs = Idxs(a.idxs), !.d = a.d]
     IN  th' = [th EXCEPT ![t] =
                  IF a.nilParent THEN NilParent(r)
                  ELSE [r EXCEPT
                          !.pc = "reverse",
                          !.file = [addr  |-> NewAddr(t),
                                    bytes |-> GzippedFile[a.d]]]]
  /\ UNCHANGED <<rawDescCache, fileDescCache, calls>>

\* Variant: the entry is stored before the reversal, with the list as the
\* ascent left it.
ReverseIdxsAfterStore(t) ==
  /\ th[t].pc = "reverse"
  /\ rawDescCache' = LoadOrStore(rawDescCache, OrigDesc(t),
                                 [fileDesc |-> th[t].file, indexes |-> th[t].idxs])
  /\ th' = [th EXCEPT ![t] =
              [th[t] EXCEPT !.pc = "store", !.idxs = Idxs(Reverse(th[t].idxs.elems))]]
  /\ UNCHANGED <<fileDescCache, calls>>

\* The reversal of idxs, in place, in the list the call made and no other
\* call has.
ReverseIdxs(t) ==
  /\ th[t].pc = "reverse"
  /\ th' = [th EXCEPT ![t] =
              [th[t] EXCEPT !.pc = "store", !.idxs = Idxs(Reverse(th[t].idxs.elems))]]
  /\ UNCHANGED <<rawDescCache, fileDescCache, calls>>

\* Variant: the result of LoadOrStore is ignored and the call returns the
\* pair it derived.
RawLoadOrStoreOwn(t) ==
  /\ th[t].pc = "store"
  /\ rawDescCache' = LoadOrStore(rawDescCache, OrigDesc(t),
                                 [fileDesc |-> th[t].file, indexes |-> th[t].idxs])
  /\ th' = [th EXCEPT ![t] = AfterRaw(th[t], th[t].file, th[t].idxs)]
  /\ UNCHANGED <<fileDescCache, calls>>

\* rawDescCache.LoadOrStore(origDesc, &rawDesc{file, idxs}): returns the
\* entry already there, or stores and returns its own.
RawLoadOrStore(t) ==
  /\ th[t].pc = "store"
  /\ rawDescCache' = LoadOrStore(rawDescCache, OrigDesc(t),
                                 [fileDesc |-> th[t].file, indexes |-> th[t].idxs])
  /\ th' = [th EXCEPT ![t] =
              AfterRaw(th[t], rawDescCache'[OrigDesc(t)].fileDesc,
                              rawDescCache'[OrigDesc(t)].indexes)]
  /\ UNCHANGED <<fileDescCache, calls>>

(***************************************************************************)
(* deriveFileDescriptor                                                    *)
(***************************************************************************)
Panic(r) == [r EXCEPT !.pc = "panic", !.fd = NilProto]

\* Variant: a call waits while another call is decoding for the same key.
FileLoadWaits(t) ==
  /\ th[t].pc = "fload"
  /\ \A u \in Threads \ {t} :
       th[u].pc \in {"decode", "fstore"} =>
         FileKey(th[u].raw.fileDesc) # FileKey(th[t].raw.fileDesc)
  /\ LET rawDesc == th[t].raw.fileDesc
     IN  th' = [th EXCEPT ![t] =
                  IF Len(rawDesc.bytes) = 0 THEN Panic(th[t])
                  ELSE IF Has(fileDescCache, FileKey(rawDesc))
                    THEN [th[t] EXCEPT !.pc = "nav", !.fd = fileDescCache[FileKey(rawDesc)]]
                  ELSE [th[t] EXCEPT !.pc = "decode"]]
  /\ UNCHANGED <<rawDescCache, fileDescCache, calls>>

\* Fast-path: fileDescCache.Load(&rawDesc[0]); &rawDesc[0] panics on an
\* empty slice.
FileLoad(t) ==
  /\ th[t].pc = "fload"
  /\ LET rawDesc == th[t].raw.fileDesc
     IN  th' = [th EXCEPT ![t] =
                  IF Len(rawDesc.bytes) = 0 THEN Panic(th[t])
                  ELSE IF Has(fileDescCache, FileKey(rawDesc))
                    THEN [th[t] EXCEPT !.pc = "nav", !.fd = fileDescCache[FileKey(rawDesc)]]
                  ELSE [th[t] EXCEPT !.pc = "decode"]]
  /\ UNCHANGED <<rawDescCache, fileDescCache, calls>>

\* fd := &descriptorpb.FileDescriptorProto{}: the tree is an object of its
\* own, the one call t allocates (a call allocates at most one).
NewTree(tree, t) == tree @@ ("obj" :> t)
\* The content of a tree object.
Content(fd) == [x \in DOMAIN fd \ {"obj"} |-> fd[x]]

\* gzip.NewReader, ioutil.ReadAll and proto.Unmarshal all succeed.
DecodeOK(z) == GzipHeaderOK(z) /\ GzipReadOK(z) /\ UnmarshalOK(GzipBody(z))

\* What decompressing and parsing z gives: an error or a tree.
DecodeBytes(z) ==
  IF DecodeOK(z) THEN [ok |-> TRUE, tree |-> Unmarshal(GzipBody(z))]
  ELSE [ok |-> FALSE, tree |-> NilProto]

\* DecodeBytes as a table, for the byte strings of the values and of the
\* file.
EmbeddedBlobs == {Values[v].rawDesc.bytes : v \in ValueIds} \cup {FileBytes}
DecodedBlobs == Tabulated([z \in EmbeddedBlobs |-> DecodeBytes(z)])
Decoding(z) == IF z \in EmbeddedBlobs THEN DecodedBlobs[z] ELSE DecodeBytes(z)

\* Slow-path: decompress and parse, panicking on any error.
Decode(t) ==
  /\ th[t].pc = "decode"
  /\ LET z == Decoding(th[t].raw.fileDesc.bytes)
     IN  th' = [th EXCEPT ![t] =
                  IF z.ok
                    THEN [th[t] EXCEPT !.pc = "fstore", !.fd = NewTree(z.tree, t)]
                    ELSE Panic(th[t])]
  /\ UNCHANGED <<rawDescCache, fileDescCache, calls>>

\* Variant: the result of LoadOrStore is ignored and the call returns the
\* tree it decoded.
FileLoadOrStoreOwn(t) ==
  /\ th[t].pc = "fstore"
  /\ fileDescCache' = LoadOrStore(fileDescCache, FileKey(th[t].raw.fileDesc), th[t].fd)
  /\ th' = [th EXCEPT ![t] = [th[t] EXCEPT !.pc = "nav"]]
  /\ UNCHANGED <<rawDescCache, calls>>

\* fileDescCache.LoadOrStore(&rawDesc[0], fd)
FileLoadOrStore(t) ==
  /\ th[t].pc = "fstore"
  /\ fileDescCache' = LoadOrStore(fileDescCache, FileKey(th[t].raw.fileDesc), th[t].fd)
  /\ th' = [th EXCEPT ![t] =
              [th[t] EXCEPT !.pc = "nav",
                            !.fd = fileDescCache'[FileKey(th[t].raw.fileDesc)]]]
  /\ UNCHANGED <<rawDescCache, calls>>

(***************************************************************************)
(* EnumDescriptorProto / MessageDescriptorProto: the walk along the index  *)
(* path.  An index out of range panics.                                    *)
(***************************************************************************)
InRange(list, i) == i >= 0 /\ i < Len(list)
\* Variant: an index out of range yields no declaration and no panic.
NoDeclaration == [ok |-> TRUE, decl |-> NilProto]

Bad == [ok |-> FALSE, decl |-> NilProto]
Good(decl) == [ok |-> TRUE, decl |-> decl]

\* md = md.NestedType[i] for each i of path, in order.
RECURSIVE Descend(_, _)
Descend(md, path) ==
  IF path = <<>> THEN Good(md)
  ELSE IF InRange(md.nested_type, Head(path))
    THEN Descend(md.nested_type[Head(path) + 1], Tail(path))
  ELSE Bad

\* Variant: the indices after the first are not followed.
MessageAtTopLevel(fd, idxs) ==
  IF idxs # <<>> /\ InRange(fd.message_type, idxs[1])
    THEN Good(fd.message_type[idxs[1] + 1])
    ELSE Bad

MessageAt(fd, idxs) ==
  IF idxs # <<>> /\ InRange(fd.message_type, idxs[1])
    THEN Descend(fd.message_type[idxs[1] + 1], Tail(idxs))
    ELSE Bad

\* Variant: every index after the first descends into NestedType.
EnumAtAllNested(fd, idxs) ==
  IF Len(idxs) = 1
    THEN IF InRange(fd.enum_type, idxs[1]) THEN Good(fd.enum_type[idxs[1] + 1]) ELSE Bad
  ELSE IF idxs # <<>> /\ InRange(fd.message_type, idxs[1])
    THEN LET md == Descend(fd.message_type[idxs[1] + 1], Tail(idxs))
         IN  IF md.ok /\ InRange(md.decl.enum_type, idxs[Len(idxs)])
               THEN Good(md.decl.enum_type[idxs[Len(idxs)] + 1])
               ELSE Bad
  ELSE Bad

EnumAt(fd, idxs) ==
  IF Len(idxs) = 1
    THEN IF InRange(fd.enum_type, idxs[1]) THEN Good(fd.enum_type[idxs[1] + 1]) ELSE Bad
  ELSE IF idxs # <<>> /\ InRange(fd.message_type, idxs[1])
    THEN LET md == Descend(fd.message_type[idxs[1] + 1], SubSeq(idxs, 2, Len(idxs) - 1))
         IN  IF md.ok /\ InRange(md.decl.enum_type, idxs[Len(idxs)])
               THEN Good(md.decl.enum_type[idxs[Len(idxs)] + 1])
               ELSE Bad
  ELSE Bad

Navigate(t) ==
  /\ th[t].pc = "nav"
  /\ LET idxs == th[t].raw.indexes.elems
         r    == IF Values[th[t].val].kind = "enum" THEN EnumAt(th[t].fd, idxs)
                 ELSE MessageAt(th[t].fd, idxs)
     IN  th' = [th EXCEPT ![t] =
                  IF r.ok
                    THEN [th[t] EXCEPT !.pc = "done", !.fd = NilProto,
                                       !.ret = [NoRet EXCEPT !.fd = th[t].fd, !.decl = r.decl]]
                    ELSE Panic(th[t])]
  /\ UNCHANGED <<rawDescCache, fileDescCache, calls>>

(***************************************************************************)
(* Vocabulary of the properties.                                           *)
(***************************************************************************)
Started(t) == th[t].pc # "idle"
\* The call is for a value without an accessor: it goes through
\* deriveRawDescriptor.
Derives(t) == Started(t) /\ ~Values[th[t].val].accessor
\* The call is for a value with an accessor of its own.
SelfDescribes(t) == Started(t) /\ Values[th[t].val].accessor
\* The raw operation of the call has returned; th[t].raw is its result.
RawReturned(t) == th[t].pc \in {"done", "fload", "decode", "fstore", "nav", "panic"}
\* The call has returned; th[t].ret is its result.
Returned(t) == th[t].pc = "done"
\* The call ran the slow path of deriveRawDescriptor to the end and has an
\* artifact of its own making: th[t].file and th[t].idxs.
RanDerivation(t) == ~IsNilBytes(th[t].file) /\ th[t].pc # "reverse"
\* deriveFileDescriptor has returned a tree to the call.
HasTree(t) == th[t].pc = "nav" \/ (Returned(t) /\ th[t].ret.fd # NilProto)
TreeOf(t) == IF th[t].pc = "nav" THEN th[t].fd ELSE th[t].ret.fd

\* The n-th parent of d; the nil parent is its own parent.
RECURSIVE NthParent(_, _)
NthParent(d, n) ==
  IF n = 0 \/ d = NilDesc THEN d ELSE NthParent(Parent(d), n - 1)

IsFileNode(d) == d # NilDesc /\ IsFileDescriptor(d)

\* The descriptors whose parent chain reaches a file descriptor.
RootedDescs ==
  {d \in DescIds : \E n \in 1..Len(Descriptors) : IsFileNode(NthParent(d, n))}
HasRootFile(d) == d \in RootedDescs
\* The number of nodes on the chain from d up to the file, the file excluded.
DepthOf ==
  [d \in RootedDescs |->
     CHOOSE n \in 1..Len(Descriptors) :
       /\ IsFileNode(NthParent(d, n))
       /\ \A m \in 1..(n - 1) : ~IsFileNode(NthParent(d, m))]
Depth(d) == DepthOf[d]
RootFile(d) == NthParent(d, Depth(d))

(***************************************************************************)
(* C1  Cache convergence.  Every call of deriveRawDescriptor for a         *)
(* descriptor that has a root file returns the value stored in             *)
(* rawDescCache for the descriptor, the same buffer and the same index     *)
(* path; so any two calls for the same descriptor return the same          *)
(* artifact, also the call that derived an artifact of its own and lost    *)
(* the LoadOrStore race.                                                   *)
(***************************************************************************)
CacheConvergence ==
  /\ \A t \in Threads :
       Derives(t) /\ RawReturned(t) /\ HasRootFile(OrigDesc(t)) =>
         /\ Has(rawDescCache, OrigDesc(t))
         /\ th[t].raw = rawDescCache[OrigDesc(t)]
  /\ \A t, u \in Threads :
       /\ Derives(t) /\ RawReturned(t)
       /\ Derives(u) /\ RawReturned(u)
       /\ OrigDesc(t) = OrigDesc(u)
       => th[t].raw = th[u].raw

\* Two calls for one descriptor both derived; one lost the race and has
\* returned the buffer the other made.
LoserReturnsWinner ==
  \E t, u \in Threads :
    /\ t # u
    /\ Derives(t) /\ Derives(u) /\ OrigDesc(t) = OrigDesc(u)
    /\ Returned(t) /\ Returned(u)
    /\ RanDerivation(t) /\ RanDerivation(u)
    /\ th[t].file.addr # th[u].file.addr
    /\ th[t].raw.fileDesc = th[u].file

(***************************************************************************)
(* C2  Write-once caches.  A key of rawDescCache or of fileDescCache that  *)
(* has a value keeps that value in every later state: it is never removed  *)
(* and never mapped to another value.                                      *)
(***************************************************************************)
Kept(m, n) == \A k \in DOMAIN m : k \in DOMAIN n /\ n[k] = m[k]

WriteOnce ==
  [][Kept(rawDescCache, rawDescCache') /\ Kept(fileDescCache, fileDescCache')]_vars

\* Both caches hold an entry that two calls of a descriptor-proto operation
\* have been through, each with a derivation and a decoding of its own.
BothCachesContended ==
  \E t, u \in Threads :
    /\ t # u
    /\ Derives(t) /\ Derives(u) /\ OrigDesc(t) = OrigDesc(u)
    /\ th[t].proto /\ th[u].proto
    /\ Returned(t) /\ Returned(u)
    /\ RanDerivation(t) /\ RanDerivation(u)
    /\ Has(rawDescCache, OrigDesc(t))
    /\ Has(fileDescCache, th[t].raw.fileDesc.addr)

(***************************************************************************)
(* C3  Capability gap.  A call for a value without an accessor whose       *)
(* descriptor's parent chain ends at a nil parent never panics and goes    *)
(* no further than the ascent; when it has returned, the result is         *)
(* (nil, nil), for the raw and for the descriptor-proto operations, for    *)
(* messages and for enums.                                                 *)
(***************************************************************************)
CapabilityGap ==
  \A t \in Threads :
    Derives(t) /\ ~HasRootFile(OrigDesc(t)) =>
      /\ th[t].pc \in {"derive", "done"}
      /\ Returned(t) => th[t].ret = NoRet

\* A descriptor-proto operation on a message and a raw operation on an
\* enum, both without a root file, have returned.
StandaloneReturned ==
  \E t, u \in Threads :
    /\ Derives(t) /\ Derives(u)
    /\ ~HasRootFile(OrigDesc(t)) /\ ~HasRootFile(OrigDesc(u))
    /\ Values[th[t].val].kind = "message" /\ th[t].proto
    /\ Values[th[u].val].kind = "enum" /\ ~th[u].proto
    /\ Returned(t) /\ Returned(u)

(***************************************************************************)
(* C4  Fast-path precedence.  For a value with an accessor of its own the  *)
(* raw operation yields exactly the accessor's pair; the call never is in  *)
(* the slow path of deriveRawDescriptor, derives no artifact, and          *)
(* rawDescCache gets no entry for the value's descriptor.                  *)
(***************************************************************************)
AccessorPair(v) == [fileDesc |-> Values[v].rawDesc, indexes |-> Values[v].idxs]

FastPathPrecedence ==
  \A t \in Threads :
    SelfDescribes(t) =>
      /\ th[t].pc \notin {"derive", "reverse", "store"}
      /\ th[t].raw = AccessorPair(th[t].val)
      /\ ~RanDerivation(t)
      /\ ~Has(rawDescCache, OrigDesc(t))
      /\ Returned(t) /\ ~th[t].proto =>
           /\ th[t].ret.rawDesc = Values[th[t].val].rawDesc
           /\ th[t].ret.idxs = Values[th[t].val].idxs

\* A raw operation has returned an accessor's pair whose index path is not
\* the one the derivation gives for the descriptor, while rawDescCache holds
\* entries.
AccessorPairReturned ==
  \E t \in Threads :
    /\ SelfDescribes(t) /\ Returned(t) /\ ~th[t].proto
    /\ HasRootFile(OrigDesc(t))
    /\ ~IsNilIdxs(th[t].ret.idxs)
    /\ th[t].ret.idxs.elems[1] # Index(NthParent(OrigDesc(t), Depth(OrigDesc(t)) - 1))
    /\ DOMAIN rawDescCache # {}

(***************************************************************************)
(* C5  Path shape.  For a descriptor with a root file the derived index    *)
(* path is in root-to-leaf order: as long as the chain from the node to    *)
(* the file, the i-th element the index of the ancestor i levels below     *)
(* the file, so the first the index of the top-level ancestor and the      *)
(* last the node's own.  The first top-level message gives [0], the first  *)
(* message nested in it [0, 0].                                            *)
(***************************************************************************)
IsFirstTopLevelMessage(d) ==
  Descriptors[d].kind = "message" /\ Index(d) = 0 /\ IsFileNode(Parent(d))

PathShape ==
  \A t \in Threads :
    Derives(t) /\ RawReturned(t) /\ HasRootFile(OrigDesc(t)) =>
      LET o == OrigDesc(t)
          n == Depth(o)
          p == th[t].raw.indexes.elems
      IN  /\ ~IsNilIdxs(th[t].raw.indexes)
          /\ Len(p) = n
          /\ \A i \in 1..n : p[i] = Index(NthParent(o, n - i))
          /\ p[1] = Index(NthParent(o, n - 1))
          /\ p[n] = Index(o)
          /\ IsFirstTopLevelMessage(o) => p = <<0>>
          /\ /\ Descriptors[o].kind = "message" /\ Index(o) = 0
             /\ Parent(o) # NilDesc /\ IsFirstTopLevelMessage(Parent(o))
             => p = <<0, 0>>

\* The path of an enum two messages deep, whose top-level ancestor is not
\* the first message of the file, has been returned.
DeepPathReturned ==
  \E t \in Threads :
    /\ Derives(t) /\ Returned(t) /\ ~th[t].proto
    /\ HasRootFile(OrigDesc(t)) /\ Depth(OrigDesc(t)) = 3
    /\ th[t].ret.idxs.elems = <<1, 0, 0>>

(***************************************************************************)
(* C6  Round trip.  For a value without an accessor whose descriptor has   *)
(* a root file, the descriptor-proto operation never panics, and the       *)
(* declaration it returns has the kind and the name of the descriptor and  *)
(* lies in the tree of the descriptor's file.                              *)
(***************************************************************************)
RoundTrip ==
  \A t \in Threads :
    Derives(t) /\ th[t].proto /\ HasRootFile(OrigDesc(t)) =>
      /\ th[t].pc # "panic"
      /\ Returned(t) =>
           /\ th[t].ret.decl.kind = Values[th[t].val].kind
           /\ th[t].ret.decl.name = Descriptors[OrigDesc(t)].name
           /\ th[t].ret.fd.kind = "file"
           /\ th[t].ret.fd.name = Descriptors[RootFile(OrigDesc(t))].name

\* The declarations of a nested enum and of a nested message have been
\* returned.
NestedDeclarationsReturned ==
  \E t, u \in Threads :
    /\ Derives(t) /\ Derives(u) /\ th[t].proto /\ th[u].proto
    /\ Returned(t) /\ Returned(u)
    /\ HasRootFile(OrigDesc(t)) /\ HasRootFile(OrigDesc(u))
    /\ Depth(OrigDesc(t)) = 3 /\ th[t].ret.decl.kind = "enum"
    /\ Depth(OrigDesc(u)) = 2 /\ th[u].ret.decl.kind = "message"

BothOrNeither(a, b) == a <=> b

ReturnShape ==
  \A t \in Threads :
    Returned(t) =>
      IF th[t].proto
        THEN BothOrNeither(th[t].ret.fd = NilProto, th[t].ret.decl = NilProto)
        ELSE BothOrNeither(IsNilBytes(th[t].ret.rawDesc), IsNilIdxs(th[t].ret.idxs))

(***************************************************************************)
(* C8, amended.  Every result of the descriptor-proto operations, and      *)
(* every result of the raw operations for a value without an accessor, is  *)
(* a pair of two present components or the pair (nil, nil); the raw        *)
(* operations for a value with an accessor return the accessor's pair as   *)
(* it is, whatever its shape.                                              *)
(***************************************************************************)
ReturnShapeAmended ==
  \A t \in Threads :
    Returned(t) =>
      IF th[t].proto
        THEN BothOrNeither(th[t].ret.fd = NilProto, th[t].ret.decl = NilProto)
      ELSE IF Derives(t)
        THEN BothOrNeither(IsNilBytes(th[t].ret.rawDesc), IsNilIdxs(th[t].ret.idxs))
      ELSE /\ th[t].ret.rawDesc = Values[th[t].val].rawDesc
           /\ th[t].ret.idxs = Values[th[t].val].idxs

\* The four operations have returned (nil, nil) and pairs of present
\* components, and a raw operation the mixed pair of an accessor.
MixedPairReturned ==
  /\ \E t \in Threads :
       /\ SelfDescribes(t) /\ Returned(t) /\ ~th[t].proto
       /\ ~IsNilBytes(th[t].ret.rawDesc) /\ IsNilIdxs(th[t].ret.idxs)
  /\ \E u \in Threads :
       /\ Derives(u) /\ Returned(u) /\ ~th[u].proto
       /\ IsNilBytes(th[u].ret.rawDesc) /\ IsNilIdxs(th[u].ret.idxs)

(***************************************************************************)
(* C9  Decode failure is fatal.  As claimed: deriveFileDescriptor returns  *)
(* a tree only for bytes that decompress and parse; for other bytes the    *)
(* call panics.                                                            *)
(***************************************************************************)
DecodeFailureIsFatal ==
  \A t \in Threads :
    Started(t) /\ HasTree(t) => DecodeOK(th[t].raw.fileDesc.bytes)

\* The other half of C9: a step that ends in a panic leaves fileDescCache
\* as it was.
PanicPublishesNothing ==
  [][\A t \in Threads :
       th[t].pc # "panic" /\ th'[t].pc = "panic" => fileDescCache' = fileDescCache]_vars

(***************************************************************************)
(* C10  The file-tree cache is keyed by the identity of the buffer.  A     *)
(* call of deriveFileDescriptor with a buffer that has an entry gets the   *)
(* entry's tree at the Load and does not decode; a call with a buffer      *)
(* that has none decodes, also when another buffer of equal content has    *)
(* an entry; and every tree returned is the one stored under the address   *)
(* of the buffer passed in, so that distinct buffers of equal content      *)
(* have an entry each.                                                     *)
(***************************************************************************)
BlobIdentityKey ==
  /\ [](\A t \in Threads :
          Started(t) /\ HasTree(t) =>
            /\ Has(fileDescCache, th[t].raw.fileDesc.addr)
            /\ TreeOf(t) = fileDescCache[th[t].raw.fileDesc.addr])
  /\ [][\A t \in Threads :
          th[t].pc = "fload" /\ th'[t] # th[t] /\ th[t].raw.fileDesc.bytes # <<>> =>
            IF Has(fileDescCache, th[t].raw.fileDesc.addr)
              THEN /\ th'[t].pc = "nav"
                   /\ th'[t].fd = fileDescCache[th[t].raw.fileDesc.addr]
              ELSE th'[t].pc = "decode"]_vars

\* Two calls have returned trees for two buffers of equal content, and each
\* buffer has an entry of its own.
DistinctBuffersDistinctEntries ==
  \E t, u \in Threads :
    /\ Returned(t) /\ HasTree(t)
    /\ Returned(u) /\ HasTree(u)
    /\ th[t].raw.fileDesc.addr # th[u].raw.fileDesc.addr
    /\ th[t].raw.fileDesc.bytes = th[u].raw.fileDesc.bytes
    /\ Has(fileDescCache, th[t].raw.fileDesc.addr)
    /\ Has(fileDescCache, th[u].raw.fileDesc.addr)

(***************************************************************************)
(* C11  Index-path navigation.  The declaration a descriptor-proto         *)
(* operation returns is the one the index path selects in the tree: for a  *)
(* path of length 1 the element of the file's EnumType (enum) or           *)
(* MessageType (message) at the index; for a path of length n > 1 the      *)
(* first index selects a top-level message, each of the indices 2..n-1     *)
(* an element of the NestedType of the message reached so far, and the     *)
(* last an element of the EnumType (enum) or NestedType (message) of the   *)
(* last message reached.                                                   *)
(***************************************************************************)
\* The message reached with the first k indices of p, k >= 1.
RECURSIVE MessageReached(_, _, _)
MessageReached(fd, p, k) ==
  IF k = 1 THEN fd.message_type[p[1] + 1]
  ELSE MessageReached(fd, p, k - 1).nested_type[p[k] + 1]

Selected(fd, kind, p) ==
  LET n == Len(p)
  IN  IF n = 1
        THEN IF kind = "enum" THEN fd.enum_type[p[1] + 1]
             ELSE fd.message_type[p[1] + 1]
      ELSE IF kind = "enum"
        THEN MessageReached(fd, p, n - 1).enum_type[p[n] + 1]
      ELSE MessageReached(fd, p, n - 1).nested_type[p[n] + 1]

IndexPathNavigation ==
  \A t \in Threads :
    Returned(t) /\ th[t].proto /\ th[t].ret.fd # NilProto =>
      th[t].ret.decl =
        Selected(th[t].ret.fd, Values[th[t].val].kind, th[t].raw.indexes.elems)

\* An enum has been selected with a path of length 3 and a message with a
\* path of length 1.
LongAndShortPathNavigated ==
  \E t, u \in Threads :
    /\ Returned(t) /\ th[t].proto /\ th[t].ret.decl # NilProto
    /\ Values[th[t].val].kind = "enum" /\ Len(th[t].raw.indexes.elems) = 3
    /\ Returned(u) /\ th[u].proto /\ th[u].ret.decl # NilProto
    /\ Values[th[u].val].kind = "message" /\ Len(th[u].raw.indexes.elems) = 1

(***************************************************************************)
(* C12  An out-of-range path is fatal.  When some index of the path is     *)
(* out of range for the list it selects from, at its level of the tree,    *)
(* the navigation panics: the step from the navigation ends in the panic   *)
(* with no result, and no call has returned a tree with a path that is     *)
(* out of range in it.                                                     *)
(***************************************************************************)
\* The list the k-th index of p selects from.
ListAt(fd, kind, p, k) ==
  IF k = 1
    THEN IF Len(p) = 1 /\ kind = "enum" THEN fd.enum_type ELSE fd.message_type
  ELSE IF k = Len(p) /\ kind = "enum"
    THEN MessageReached(fd, p, k - 1).enum_type
  ELSE MessageReached(fd, p, k - 1).nested_type

\* The first k indices of p are in range, each for its list.
RECURSIVE InRangeUpTo(_, _, _, _)
InRangeUpTo(fd, kind, p, k) ==
  \/ k = 0
  \/ /\ InRangeUpTo(fd, kind, p, k - 1)
     /\ p[k] \in 0..(Len(ListAt(fd, kind, p, k)) - 1)

PathOutOfRange(fd, kind, p) == ~InRangeUpTo(fd, kind, p, Len(p))

OutOfRangeIsFatal ==
  /\ [](\A t \in Threads :
          Returned(t) /\ th[t].proto /\ th[t].ret.fd # NilProto =>
            /\ th[t].ret.decl # NilProto
            /\ ~PathOutOfRange(th[t].ret.fd, Values[th[t].val].kind,
                               th[t].raw.indexes.elems))
  /\ [][\A t \in Threads :
          /\ th[t].pc = "nav" /\ th'[t] # th[t]
          /\ PathOutOfRange(th[t].fd, Values[th[t].val].kind, th[t].raw.indexes.elems)
          => th'[t].pc = "panic" /\ th'[t].ret = NoRet]_vars

\* A call whose bytes decoded, and whose path has an index the tree does
\* not have, has panicked.
OutOfRangePanicked ==
  \E t \in Threads :
    /\ th[t].pc = "panic" /\ th[t].proto
    /\ DecodeOK(th[t].raw.fileDesc.bytes)
    /\ Has(fileDescCache, FileKey(th[t].raw.fileDesc))
    /\ PathOutOfRange(fileDescCache[FileKey(th[t].raw.fileDesc)],
                      Values[th[t].val].kind, th[t].raw.indexes.elems)

(***************************************************************************)
(* C13  No value is half-published.  Every entry of rawDescCache is fully  *)
(* formed: a buffer that decodes and the index path in root-to-leaf        *)
(* order, although calls hold lists that are still leaf-to-root; every     *)
(* pair a call gets from the cache has that path; the buffer and the list  *)
(* of a call are not written once the call is at the store or past it;     *)
(* and every entry of fileDescCache is the tree that the call that         *)
(* allocated it decoded, without error, from the bytes it was given for    *)
(* the key.                                                                *)
(***************************************************************************)
\* The indices of the ancestors of d and of d, from the top-level ancestor
\* down.
RootToLeaf(d) == [i \in 1..Depth(d) |-> Index(NthParent(d, Depth(d) - i))]

BeforeStore == {"idle", "derive", "reverse"}

FullyFormed ==
  /\ [](/\ \A d \in DOMAIN rawDescCache :
             /\ HasRootFile(d)
             /\ ~IsNilIdxs(rawDescCache[d].indexes)
             /\ rawDescCache[d].indexes.elems = RootToLeaf(d)
             /\ Decoding(rawDescCache[d].fileDesc.bytes).ok
        /\ \A t \in Threads :
             Derives(t) /\ RawReturned(t) /\ HasRootFile(OrigDesc(t)) =>
               th[t].raw.indexes.elems = RootToLeaf(OrigDesc(t))
        /\ \A k \in DOMAIN fileDescCache :
             LET by == th[fileDescCache[k].obj].raw.fileDesc
             IN  /\ FileKey(by) = k
                 /\ Decoding(by.bytes).ok
                 /\ Content(fileDescCache[k]) = Decoding(by.bytes).tree)
  /\ [][\A t \in Threads :
          th[t].pc \notin BeforeStore =>
            th'[t].file = th[t].file /\ th'[t].idxs = th[t].idxs]_vars

\* A call holds a list that is not yet reversed, for a descriptor that has
\* an entry, and another call has returned the entry's pair.
ReaderBesideReversal ==
  \E t, u \in Threads :
    /\ th[t].pc = "reverse"
    /\ th[t].idxs.elems # RootToLeaf(OrigDesc(t))
    /\ Has(rawDescCache, OrigDesc(t))
    /\ Derives(u) /\ Returned(u) /\ OrigDesc(u) = OrigDesc(t)
    /\ th[u].raw = rawDescCache[OrigDesc(t)]

(***************************************************************************)
(* C14  No repeated work after publication.  A call of                     *)
(* deriveRawDescriptor that begins when rawDescCache has an entry for its  *)
(* descriptor gets the entry's pair at the Load and is not in the slow     *)
(* path then or later: the walk is entered only at the beginning of a      *)
(* call, the reversal only from the walk, the store only from the          *)
(* reversal.  A call of deriveFileDescriptor that begins when              *)
(* fileDescCache has an entry for its key gets the entry's tree at the     *)
(* Load; the decoding is entered only from a Load that found nothing.  So  *)
(* a second derivation for a key runs only in a call that began before     *)
(* the first store.                                                        *)
(***************************************************************************)
InSlowPath(r) == r.pc \in {"derive", "reverse", "store"}

NoRepeatedWork ==
  [][\A t \in Threads :
       /\ /\ th[t].pc = "idle" /\ th'[t].pc # "idle"
          /\ ~Values[th'[t].val].accessor
          /\ Has(rawDescCache, Values[th'[t].val].desc)
          => /\ ~InSlowPath(th'[t])
             /\ th'[t].raw = rawDescCache[Values[th'[t].val].desc]
             /\ IsNilBytes(th'[t].file) /\ IsNilIdxs(th'[t].idxs)
       /\ th'[t].pc = "derive" => th[t].pc \in {"idle", "derive"}
       /\ th'[t].pc = "reverse" => th[t].pc \in {"derive", "reverse"}
       /\ th'[t].pc = "store" => th[t].pc \in {"reverse", "store"}
       /\ /\ th[t].pc = "fload" /\ th'[t] # th[t]
          /\ th[t].raw.fileDesc.bytes # <<>>
          /\ Has(fileDescCache, FileKey(th[t].raw.fileDesc))
          => /\ th'[t].pc = "nav"
             /\ th'[t].fd = fileDescCache[FileKey(th[t].raw.fileDesc)]
       /\ /\ th'[t].pc = "decode" /\ th[t].pc # "decode"
          => th[t].pc = "fload" /\ ~Has(fileDescCache, FileKey(th[t].raw.fileDesc))
       /\ th'[t].pc = "fstore" => th[t].pc \in {"decode", "fstore"}]_vars

\* A call that began after the entries were stored has returned the tree
\* another call derived and decoded, with no derivation and no tree of its
\* own.
LateCallReused ==
  \E t, u \in Threads :
    /\ t # u
    /\ Derives(t) /\ Derives(u) /\ OrigDesc(t) = OrigDesc(u)
    /\ RanDerivation(t)
    /\ Has(rawDescCache, OrigDesc(t))
    /\ rawDescCache[OrigDesc(t)].fileDesc = th[t].file
    /\ Returned(u) /\ th[u].proto
    /\ IsNilBytes(th[u].file)
    /\ th[u].ret.fd # NilProto /\ th[u].ret.fd.obj = t

(***************************************************************************)
(* C15  Buffer reuse.  Every buffer deriveRawDescriptor returns for a      *)
(* descriptor is the buffer of the descriptor's entry in rawDescCache,     *)
(* not the buffer of a call that lost the race; so the descriptor-proto    *)
(* calls for the descriptor all have the same key of fileDescCache, no     *)
(* key of fileDescCache is the address of a buffer that lost, there are    *)
(* no more entries for derived buffers than rawDescCache has entries, and  *)
(* the calls that have returned all returned the same tree object.         *)
(***************************************************************************)
\* The addresses of the buffers the accessors return.
AccessorAddrs == {Values[v].rawDesc.addr : v \in {w \in ValueIds : Values[w].accessor}}
\* The keys of fileDescCache that are addresses of derived buffers.
DerivedKeys == DOMAIN fileDescCache \ AccessorAddrs

BufferReuse ==
  /\ \A t \in Threads :
       Derives(t) /\ RawReturned(t) /\ ~IsNilBytes(th[t].raw.fileDesc) =>
         /\ Has(rawDescCache, OrigDesc(t))
         /\ th[t].raw.fileDesc = rawDescCache[OrigDesc(t)].fileDesc
  /\ \A t, u \in Threads :
       /\ Derives(t) /\ RawReturned(t) /\ th[t].proto
       /\ Derives(u) /\ RawReturned(u) /\ th[u].proto
       /\ OrigDesc(t) = OrigDesc(u)
       => /\ FileKey(th[t].raw.fileDesc) = FileKey(th[u].raw.fileDesc)
          /\ Returned(t) /\ Returned(u) => th[t].ret.fd = th[u].ret.fd
  /\ \A k \in DerivedKeys :
       \E d \in DOMAIN rawDescCache : FileKey(rawDescCache[d].fileDesc) = k
  /\ Cardinality(DerivedKeys) <= Cardinality(DOMAIN rawDescCache)

\* Two calls for one descriptor each derived a buffer and both returned
\* one tree: the tree that the call whose buffer lost decoded from the
\* buffer that won.
LoserDecodedWinnersBuffer ==
  \E t, u \in Threads :
    /\ t # u
    /\ Derives(t) /\ Derives(u) /\ OrigDesc(t) = OrigDesc(u)
    /\ th[t].proto /\ th[u].proto /\ Returned(t) /\ Returned(u)
    /\ RanDerivation(t) /\ RanDerivation(u)
    /\ th[t].file.addr # th[u].file.addr
    /\ th[u].raw.fileDesc = th[t].file
    /\ th[t].ret.fd # NilProto /\ th[t].ret.fd = th[u].ret.fd
    /\ th[t].ret.fd.obj = u
    /\ DerivedKeys = {th[t].file.addr}

(***************************************************************************)
(* C17  The unsupported outcome is not cached.  rawDescCache has no entry  *)
(* for a descriptor whose parent chain ends at a nil parent; a call for    *)
(* such a descriptor begins with the walk, whatever calls came before,     *)
(* ends from the walk with (nil, nil), and none of its steps changes       *)
(* rawDescCache or fileDescCache; and a descriptor-proto call whose pair   *)
(* has a nil component has ended with (nil, nil) without a step in         *)
(* deriveFileDescriptor.                                                   *)
(***************************************************************************)
\* The call of record r is for a value without an accessor whose
\* descriptor has no root file.
Unsupported(r) ==
  r.pc # "idle" /\ ~Values[r.val].accessor /\ ~HasRootFile(Values[r.val].desc)

HasNilComponent(raw) == IsNilBytes(raw.fileDesc) \/ IsNilIdxs(raw.indexes)

UnsupportedNotCached ==
  /\ [](/\ \A d \in DOMAIN rawDescCache : HasRootFile(d)
        /\ \A t \in Threads :
             th[t].proto /\ RawReturned(t) /\ HasNilComponent(th[t].raw) =>
               th[t].pc = "done" /\ th[t].ret = NoRet)
  /\ [][\A t \in Threads :
          th'[t] # th[t] /\ Unsupported(th'[t]) =>
            /\ rawDescCache' = rawDescCache
            /\ fileDescCache' = fileDescCache
            /\ th[t].pc = "idle" => th'[t].pc = "derive"
            /\ th[t].pc # "idle" =>
                 /\ th[t].pc = "derive" /\ th'[t].pc = "done"
                 /\ th'[t].raw = NoRaw /\ th'[t].ret = NoRet]_vars

\* A descriptor-proto call for a descriptor without a root file has ended
\* with (nil, nil), the caches are empty, and the next call for the
\* descriptor is in the walk.
WalkedAgain ==
  \E t, u \in Threads :
    /\ t < u
    /\ Unsupported(th[t]) /\ th[t].proto /\ Returned(t) /\ th[t].ret = NoRet
    /\ Unsupported(th[u]) /\ OrigDesc(u) = OrigDesc(t) /\ th[u].pc = "derive"
    /\ DOMAIN rawDescCache = {} /\ DOMAIN fileDescCache = {}

(***************************************************************************)
(* C18  Coherence of the file-tree cache.  As claimed: every tree          *)
(* deriveFileDescriptor returns is the decoding of the bytes passed in     *)
(* the call, also when an earlier call passed other bytes whose first      *)
(* byte has the same address.                                              *)
(***************************************************************************)
FileTreeCacheCoherence ==
  \A t \in Threads :
    Started(t) /\ HasTree(t) =>
      LET z == Decoding(th[t].raw.fileDesc.bytes)
      IN  z.ok /\ Content(TreeOf(t)) = z.tree

\* What holds in its place: the tree is the decoding of the bytes of the
\* call that allocated it, and those bytes begin at the same address.
CoherentByAddress ==
  \A t \in Threads :
    Started(t) /\ HasTree(t) =>
      LET by == th[TreeOf(t).obj].raw.fileDesc
      IN  /\ FileKey(by) = FileKey(th[t].raw.fileDesc)
          /\ Content(TreeOf(t)) = Decoding(by.bytes).tree

Next ==
  \E t \in Threads :
    \/ \E v \in ValueIds, proto \in BOOLEAN : FastPath(t, v, proto)
    \/ \E v \in ValueIds, proto \in BOOLEAN : SlowPath(t, v, proto)
    \/ Derive(t)
    \/ ReverseIdxs(t)
    \/ RawLoadOrStore(t)
    \/ FileLoad(t)
    \/ Decode(t)
    \/ FileLoadOrStore(t)
    \/ Navigate(t)

Spec == Init /\ [][Next]_vars

(***************************************************************************)
(* C16  Every call ends, without waiting for another call.  In every       *)
(* state a call that has begun and has not ended has a step it can take,   *)
(* whatever the positions of the other calls and the content of the        *)
(* caches; the walk appends no more indices than there are descriptors;    *)
(* every step of a call brings it to a later position, so that no          *)
(* position is taken twice and a call ends within as many steps of its     *)
(* own as there are positions; and a step changes the record of one call   *)
(* only.                                                                   *)
(***************************************************************************)
Finished(t) == th[t].pc \in {"done", "panic"}

\* The steps of call t after its first.
StepOf(t) ==
  \/ Derive(t)
  \/ ReverseIdxs(t)
  \/ RawLoadOrStore(t)
  \/ FileLoad(t)
  \/ Decode(t)
  \/ FileLoadOrStore(t)
  \/ Navigate(t)

\* The positions in the order of the code, and the place of a position in
\* it.
Positions ==
  <<"idle", "derive", "reverse", "store", "fload", "decode", "fstore", "nav", "done">>
PlaceOf(pc) ==
  IF pc = "panic" THEN Len(Positions)
  ELSE CHOOSE i \in DOMAIN Positions : Positions[i] = pc

Terminates ==
  /\ [](\A t \in Threads :
          /\ Started(t) /\ ~Finished(t) => ENABLED StepOf(t)
          /\ Len(th[t].idxs.elems) <= Cardinality(DescIds))
  /\ [][/\ \A t \in Threads :
             th'[t] # th[t] => PlaceOf(th'[t].pc) > PlaceOf(th[t].pc)
        /\ \A t, u \in Threads :
             th'[t] # th[t] /\ th'[u] # th[u] => t = u]_vars

\* A call is at the store for a descriptor whose entry another call has
\* stored in the meantime, that call now being in the middle of the
\* decoding, and each of the two can take its step.
ContendedCallsCanStep ==
  \E t, u \in Threads :
    /\ th[t].pc = "store" /\ Has(rawDescCache, OrigDesc(t))
    /\ th[u].pc = "fstore" /\ OrigDesc(u) = OrigDesc(t)
    /\ rawDescCache[OrigDesc(t)].fileDesc = th[u].file
    /\ ENABLED StepOf(t) /\ ENABLED StepOf(u)

\* Each call that can take a step takes one eventually: the scheduler runs
\* every runnable goroutine.  Nothing obliges a caller to begin a call.
FairSpec == Spec /\ \A t \in Threads : WF_vars(StepOf(t))

\* Under FairSpec every call that has begun ends, with a result or in a
\* panic.
EveryCallEnds == \A t \in Threads : Started(t) ~> Finished(t)
====
